---- MODULE Spec2Model ----
(***************************************************************************)
(* Brain-AI-Assistant: the bounded-concurrency batch engine of the ETL     *)
(* pipeline.                                                               *)
(*                                                                         *)
(*   - the rule tier (RuleBasedQualityAgent),                              *)
(*   - the add_quality_score step with the model tier and its retry pass   *)
(*     (ModelBasedQualityAgent),                                           *)
(*   - the crawler batch (Crawl4AICrawler),                                *)
(*   - the merge of the crawl step (crawl),                                *)
(*   - the storing step (store_to_mongodb).                                *)
(*                                                                         *)
(* Conventions.  A text (document content, URL) is modelled by its length: *)
(* the texts are the unary strings, so two URLs are the same value iff     *)
(* they have the same length.  A quality score is an integer number of     *)
(* hundredths (0.2 is 20).  Python's None is the empty tuple and a present *)
(* value v is <<v>>.  A Document object is its index in `documents`; in    *)
(* the merge, where identity is the id, a document carries its id.         *)
(***************************************************************************)
EXTENDS Integers, Sequences, FiniteSets, TLC

(* ------------------------------ bounds --------------------------------- *)
MaxDocs == 2
MaxConcurrentTasks == 2
MaxContentLen == 10
MaxUrlLen == 4
MaxChildUrls == 2
MaxRuleCalls == 2
MaxSources == 2
MaxCrawlUrls == 3
ScenarioDocs == 3
MaxIds == 3
MaxMergeDocs == 2
MaxStoreDocs == 2
MaxStored == 1

(* ------------------------- program constants --------------------------- *)
EmptyContentScore == 0
MostlyUrlsScore == 0
ManyUrlsScore == 20
MostlyUrlsTenths == 7
ManyUrlsTenths == 5
MockScore == 50
FirstPassAwait == 7
RetryAwait == 20
MaxTokens == 8192
TemplateLen == 200

VARIABLES
    documents,                    \* the Document objects, by index
    loaded,                       \* the documents as they were handed in
    mock,                         \* ModelBasedQualityAgent.mock
    max_concurrent_tasks,         \* the configured K
    clip_tokens_can_raise,        \* whether utils.clip_tokens can raise in this run
    stepPc,                       \* where add_quality_score stands
    ruleIdx,                      \* documents the rule tier has gone through
    ruleCalls,                    \* direct calls of the rule agent so far
    documents_with_rule_scores,   \* add_quality_score's local
    documents_without_scores,     \* add_quality_score's local
    batch,                        \* __process_batch's `documents`
    await_time_seconds,           \* __process_batch's pacing delay
    semaphore,                    \* the pass's asyncio.Semaphore
    taskPc,                       \* each document's task in the pass
    response,                     \* each task's `response`
    completed,                    \* as_completed's queue of finished tasks
    results,                      \* __process_batch's `results`
    evaluated_documents,          \* __evaluate_quality_batch's local
    retry_documents,              \* its local `documents_without_scores`
    scored_documents,             \* what add_quality_score returns
    requests,                     \* log: the model tier's submissions
    outcomes,                     \* log: how each submission ended
    answers,                      \* log: whether each submission got a valid answer
    afterFirstPass,               \* log: the documents when pass one ended
    documents_with_model_scores,  \* add_quality_score's local: the agent's return
    agent_counts,                 \* the counts of "Quality evaluation completed"
    step_metadata,                \* add_quality_score's output metadata
    crawlPc,                      \* where __crawl_batch stands
    docPos,                       \* the source document its loop is at
    request_limiter,              \* the crawl's asyncio.Semaphore
    crawlTask,                    \* the tasks of the current source document
    crawl_result,                 \* each task's `crawl_result`
    batch_results,                \* what each task returned, in task order
    crawled_results,              \* __crawl_batch's `crawled_results`
    child_pages,                  \* what the crawler returned
    summary,                      \* the counts of the "Crawling summary" line
    comprehensive_collection,     \* what the crawl step returns
    fetch_calls,                  \* log: the calls of crawler.arun, by document and URL
    storePc,                      \* where store_to_mongodb stands
    clear_existing_data,          \* its argument
    collection,                   \* the target collection's documents
    collection_at_call,           \* log: the collection when the step was called
    mongo_calls,                  \* log: the calls made on the MongoDB client
    store_error,                  \* the exception the step ended with, if any
    final_document_count          \* what the step returns

scoreVars == <<mock, stepPc, ruleIdx, ruleCalls, documents_with_rule_scores,
               documents_without_scores, batch, await_time_seconds, semaphore,
               taskPc, response, completed, results, evaluated_documents,
               retry_documents, scored_documents, requests, outcomes, answers,
               afterFirstPass, documents_with_model_scores, agent_counts,
               step_metadata>>

\* what a scoring run reports when the model agent has returned
reportVars == <<documents_with_model_scores, agent_counts, step_metadata>>

\* the scoring variables only a task's model request writes
requestVars == <<answers>>

crawlVars == <<crawlPc, docPos, request_limiter, crawlTask, crawl_result,
               batch_results, crawled_results, child_pages, summary,
               comprehensive_collection, fetch_calls>>

storeVars == <<storePc, clear_existing_data, collection, collection_at_call,
               mongo_calls, store_error, final_document_count>>

vars == <<documents, loaded, max_concurrent_tasks, clip_tokens_can_raise, scoreVars, crawlVars, storeVars>>

(* ------------------------------ helpers -------------------------------- *)
None == <<>>

Some(v) == <<v>>

Range(s) == {s[i] : i \in 1..Len(s)}

RECURSIVE TotalUrls(_)
\* the number of child URLs of a list of documents
TotalUrls(docs) ==
    IF docs = <<>> THEN 0 ELSE Len(Head(docs).child_urls) + TotalUrls(Tail(docs))

RECURSIVE SumLen(_)
\* sum(len(url) for url in document.child_urls)
SumLen(urls) == IF urls = <<>> THEN 0 ELSE Head(urls) + SumLen(Tail(urls))

SeqsUpTo(S, n) == UNION {[1..k -> S] : k \in 0..n}

(* ------------------------------ Document ------------------------------- *)
\* Document.add_quality_score: sets the field, whatever it held
AddQualityScore(document, score) ==
    [document EXCEPT !.content_quality_score = Some(score)]

IsScored(document) == document.content_quality_score # None

(* ------------------------------ rule tier ------------------------------ *)
\* mutant: the thresholds compared with > instead of >=
RatioAbove(url_based_content, content_len, tenths) ==
    10 * url_based_content > tenths * content_len

\* url_content_ratio >= tenths / 10, on the exact quotient
RatioAtLeast(url_based_content, content_len, tenths) ==
    10 * url_based_content >= tenths * content_len

\* RuleBasedQualityAgent.__apply_quality_rules
ApplyQualityRules(document) ==
    IF document.content = 0
    THEN AddQualityScore(document, EmptyContentScore)
    ELSE LET url_based_content == SumLen(document.child_urls)
         IN  IF RatioAtLeast(url_based_content, document.content, MostlyUrlsTenths)
             THEN AddQualityScore(document, MostlyUrlsScore)
             ELSE IF RatioAtLeast(url_based_content, document.content, ManyUrlsTenths)
                  THEN AddQualityScore(document, ManyUrlsScore)
                  ELSE document

(* ------------------------------ semaphore ------------------------------ *)
\* mutant: a semaphore with one slot too many
NewSemaphoreOneMore(value) == [value |-> value + 1, waiters |-> <<>>]

\* asyncio.Semaphore(value)
NewSemaphore(value) == [value |-> value, waiters |-> <<>>]

\* Semaphore.locked()
Locked(sem) == sem.value = 0 \/ sem.waiters # <<>>

(* --------------------------- model responses --------------------------- *)
\* the numbers a model can put in {"score": ...}: in [0, 1] and outside
ModelScores == {-100, 0, 80, 500}

\* message.content of the first choice
Answers ==
    {[kind |-> "none"], [kind |-> "empty"], [kind |-> "not_json"],
     [kind |-> "json_array"],
     [kind |-> "json_object", has_score |-> FALSE],
     [kind |-> "json_object", has_score |-> TRUE, number |-> FALSE]}
    \cup {[kind |-> "json_object", has_score |-> TRUE, number |-> TRUE, score |-> v] :
             v \in ModelScores}

\* what acompletion returns when it returns
Responses ==
    {[choices |-> FALSE]} \cup {[choices |-> TRUE, content |-> a] : a \in Answers}

\* a response that decodes to {score: number}
DecodesToScore(resp) ==
    /\ resp.choices
    /\ resp.content.kind = "json_object"
    /\ resp.content.has_score
    /\ resp.content.number

\* mutant: a missing "score" key read as 0 (dict.get with a default)
ParseModelOutputDefault(answer) ==
    IF answer.kind # "json_object"
    THEN None
    ELSE IF ~answer.has_score
         THEN Some([score |-> 0])
         ELSE IF ~answer.number THEN None ELSE Some([score |-> answer.score])

\* ModelBasedQualityAgent._parse_model_output
ParseModelOutput(answer) ==
    IF answer.kind \in {"none", "empty"}
    THEN None
    ELSE IF answer.kind # "json_object"
         THEN None
         ELSE IF ~answer.has_score
              THEN None
              ELSE IF ~answer.number
                   THEN None
                   ELSE Some([score |-> answer.score])

\* process_document, from the response to its return value
ProcessResponse(document, resp) ==
    IF ~resp.choices
    THEN document
    ELSE LET quality_score == ParseModelOutput(resp.content)
         IN  IF quality_score = None
             THEN document
             ELSE AddQualityScore(document, quality_score[1].score)

(* ------------------------- splitting by score -------------------------- *)
\* [doc for doc in docs if doc.content_quality_score is not None]
WithScores(docs, state) == SelectSeq(docs, LAMBDA d : IsScored(state[d]))

\* mutant: the filter on the missing score dropped
WithoutScoresUnfiltered(docs, state) == docs

\* [doc for doc in docs if doc.content_quality_score is None]
WithoutScores(docs, state) == SelectSeq(docs, LAMBDA d : ~IsScored(state[d]))

\* mutant: only the documents that needed no retry are returned
AgentReturnNotRetried(evaluated, with_scores) ==
    SelectSeq(evaluated, LAMBDA d : Len(requests[d]) < 2)

\* mutant: only the documents that hold a score are returned
AgentReturnScored(evaluated, with_scores) == WithScores(evaluated, documents)

\* __evaluate_quality_batch's return value
AgentReturn(evaluated, with_scores) == evaluated

\* mutant: the step returns the model agent's documents only
StepReturnModelOnly(with_rule_scores, with_model_scores) == with_model_scores

\* add_quality_score's return value: the two lists joined
StepReturn(with_rule_scores, with_model_scores) ==
    with_rule_scores \o with_model_scores

\* the metadata add_quality_score reports for its output
StepMetadata(total, scored, with_rule_scores, with_model_scores) ==
    [total_documents |-> Len(total),
     documents_with_scores |-> Len(WithScores(scored, documents)),
     documents_scored_by_rules |-> Len(with_rule_scores),
     documents_scored_by_model |-> Len(with_model_scores)]

\* hasattr(document, name): the Document model has the declared fields only
HasAttr(document, name) == name \in DOMAIN document

\* the success and failure counts __evaluate_quality_batch reports
AgentCounts(evaluated, total_docs) ==
    LET success_count ==
            Len(SelectSeq(evaluated, LAMBDA d : HasAttr(documents[d], "quality_score")))
    IN  [success_count |-> success_count,
         failed_count |-> total_docs - success_count,
         total_docs |-> total_docs]

\* mutant: the retry pass paced like the first pass
StartBatchSameDelay(docs, wait) ==
    /\ batch' = docs
    /\ await_time_seconds' = FirstPassAwait
    /\ semaphore' = NewSemaphore(max_concurrent_tasks)
    /\ taskPc' = [d \in DOMAIN documents |->
                    IF d \in Range(docs) THEN "created" ELSE "none"]
    /\ completed' = <<>>
    /\ results' = <<>>

\* __process_batch: the semaphore and one task per document
StartBatch(docs, wait) ==
    /\ batch' = docs
    /\ await_time_seconds' = wait
    /\ semaphore' = NewSemaphore(max_concurrent_tasks)
    /\ taskPc' = [d \in DOMAIN documents |->
                    IF d \in Range(docs) THEN "created" ELSE "none"]
    /\ completed' = <<>>
    /\ results' = <<>>

(* ------------------------------- Init ---------------------------------- *)
IdleLocals ==
    /\ ruleIdx = 0
    /\ ruleCalls = 0
    /\ documents_with_rule_scores = <<>>
    /\ documents_without_scores = <<>>
    /\ batch = <<>>
    /\ await_time_seconds = 0
    /\ semaphore = NewSemaphore(0)
    /\ taskPc = [d \in DOMAIN documents |-> "none"]
    /\ response = [d \in DOMAIN documents |-> None]
    /\ completed = <<>>
    /\ results = <<>>
    /\ evaluated_documents = <<>>
    /\ retry_documents = <<>>
    /\ scored_documents = <<>>
    /\ requests = [d \in DOMAIN documents |-> <<>>]
    /\ outcomes = [d \in DOMAIN documents |-> <<>>]
    /\ answers = [d \in DOMAIN documents |-> <<>>]
    /\ afterFirstPass = <<>>
    /\ documents_with_model_scores = <<>>
    /\ agent_counts = None
    /\ step_metadata = None
    /\ docPos = 0
    /\ request_limiter = NewSemaphore(0)
    /\ crawlTask = <<>>
    /\ crawl_result = <<>>
    /\ batch_results = <<>>
    /\ crawled_results = <<>>
    /\ summary = None
    /\ comprehensive_collection = <<>>
    /\ fetch_calls = <<>>

\* store_to_mongodb is not running
StoreIdle ==
    /\ storePc = "off"
    /\ clear_existing_data = FALSE
    /\ collection = <<>>
    /\ collection_at_call = <<>>
    /\ mongo_calls = <<>>
    /\ store_error = None
    /\ final_document_count = None

Idle ==
    /\ IdleLocals
    /\ StoreIdle
    /\ child_pages = <<>>

\* The documents a scoring run is handed: fresh documents (no score) with
\* few, more and mostly URLs in their content, and documents with and without
\* content that are fresh or were loaded from a file that holds a score.
StepDocuments ==
    {[content |-> c, child_urls |-> u, content_quality_score |-> s] :
        c \in {MaxContentLen},
        u \in {<<MaxUrlLen>>, <<MaxUrlLen, 1>>, <<MaxUrlLen, 3>>},
        s \in {None}}
    \cup {[content |-> c, child_urls |-> <<MaxUrlLen>>, content_quality_score |-> s] :
             c \in {0, MaxContentLen}, s \in {None, Some(90)}}

InitScore ==
    /\ documents \in SeqsUpTo(StepDocuments, MaxDocs)
    /\ loaded = documents
    /\ mock \in BOOLEAN
    /\ max_concurrent_tasks \in 1..MaxConcurrentTasks
    /\ clip_tokens_can_raise = FALSE
    /\ stepPc = "rules"
    /\ crawlPc = "off"
    /\ Idle

\* The documents of a run that looks at the prompt: fresh documents the rule
\* tier leaves alone, short ones and ones whose prompt is at and over the
\* token limit.
PromptDocuments ==
    {[content |-> c, child_urls |-> <<1>>, content_quality_score |-> None] :
        c \in {MaxContentLen, MaxTokens - TemplateLen, MaxTokens}}

\* add_quality_score on one document for the model tier, with a clip_tokens
\* that returns or raises
InitPrompt ==
    /\ documents \in {<<d>> : d \in PromptDocuments}
    /\ loaded = documents
    /\ mock = FALSE
    /\ max_concurrent_tasks = 1
    /\ clip_tokens_can_raise \in BOOLEAN
    /\ stepPc = "rules"
    /\ crawlPc = "off"
    /\ Idle

\* The documents the rule agent can be called on.
RuleDocuments ==
    {[content |-> c, child_urls |-> u, content_quality_score |-> s] :
        c \in 0..MaxContentLen,
        u \in SeqsUpTo(0..MaxUrlLen, MaxChildUrls),
        s \in {None, Some(0), Some(20), Some(90)}}

InitRules ==
    /\ documents \in {<<d>> : d \in RuleDocuments}
    /\ loaded = documents
    /\ mock = FALSE
    /\ max_concurrent_tasks = 1
    /\ clip_tokens_can_raise = FALSE
    /\ stepPc = "off"
    /\ crawlPc = "off"
    /\ Idle

\* The documents of a mock-mode run: without content, with a URL ratio of
\* 0.8, 0.5 and 0.1, and one with a ratio of 0.1 loaded with a score.
ScenarioDocuments ==
    {[content |-> 0, child_urls |-> <<>>, content_quality_score |-> None]}
    \cup {[content |-> MaxContentLen, child_urls |-> u,
           content_quality_score |-> None] :
             u \in {<<MaxUrlLen, MaxUrlLen>>, <<MaxUrlLen, 1>>, <<1>>}}
    \cup {[content |-> MaxContentLen, child_urls |-> <<1>>,
           content_quality_score |-> Some(90)]}

\* add_quality_score called with use_mock_quality_agent=True
InitScenario ==
    /\ documents \in [1..ScenarioDocs -> ScenarioDocuments]
    /\ loaded = documents
    /\ mock = TRUE
    /\ max_concurrent_tasks \in 1..MaxConcurrentTasks
    /\ clip_tokens_can_raise = FALSE
    /\ stepPc = "rules"
    /\ crawlPc = "off"
    /\ Idle

(* ----------------------- RuleBasedQualityAgent ------------------------- *)
\* RuleBasedQualityAgent.__call__ on the list of documents
RuleAgentCall ==
    /\ stepPc = "off"
    /\ crawlPc = "off"
    /\ ruleCalls < MaxRuleCalls
    /\ documents' = [d \in DOMAIN documents |-> ApplyQualityRules(documents[d])]
    /\ ruleCalls' = ruleCalls + 1
    /\ UNCHANGED <<loaded, storeVars, mock, max_concurrent_tasks, clip_tokens_can_raise, stepPc, ruleIdx,
                   documents_with_rule_scores, documents_without_scores, batch,
                   await_time_seconds, semaphore, taskPc, response, completed,
                   results, evaluated_documents, retry_documents,
                   scored_documents, requests, outcomes, afterFirstPass, crawlVars, reportVars, requestVars>>

(* -------------------------- add_quality_score -------------------------- *)
\* the rule tier's list comprehension, one document at a time
RuleStep ==
    /\ stepPc = "rules"
    /\ ruleIdx < Len(documents)
    /\ documents' = [documents EXCEPT ![ruleIdx + 1] = ApplyQualityRules(@)]
    /\ ruleIdx' = ruleIdx + 1
    /\ UNCHANGED <<loaded, storeVars, mock, max_concurrent_tasks, clip_tokens_can_raise, stepPc, ruleCalls,
                   documents_with_rule_scores, documents_without_scores, batch,
                   await_time_seconds, semaphore, taskPc, response, completed,
                   results, evaluated_documents, retry_documents,
                   scored_documents, requests, outcomes, afterFirstPass, crawlVars, reportVars, requestVars>>

\* the split after the rule tier, and the model agent's first pass starting
StartModelTier ==
    /\ stepPc = "rules"
    /\ ruleIdx = Len(documents)
    /\ LET all == [i \in 1..Len(documents) |-> i]
       IN  /\ documents_with_rule_scores' = WithScores(all, documents)
           /\ documents_without_scores' = WithoutScores(all, documents)
           /\ StartBatch(WithoutScores(all, documents), FirstPassAwait)
    /\ stepPc' = "first_pass"
    /\ UNCHANGED <<documents, loaded, storeVars, mock, max_concurrent_tasks, clip_tokens_can_raise, ruleIdx,
                   ruleCalls, response, evaluated_documents, retry_documents,
                   scored_documents, requests, outcomes, afterFirstPass, crawlVars, reportVars, requestVars>>

(* ----------------- ModelBasedQualityAgent: one document ---------------- *)
InPass == stepPc \in {"first_pass", "retry_pass"}

\* the task has returned `document`: as_completed will hand it out
Returned(d) == completed' = Append(completed, d)

\* `async with semaphore` is left: the slot goes to the longest waiter, if any
Release(d) ==
    IF semaphore.waiters = <<>>
    THEN /\ semaphore' = [semaphore EXCEPT !.value = @ + 1]
         /\ taskPc' = [taskPc EXCEPT ![d] = "returned"]
    ELSE /\ semaphore' = [semaphore EXCEPT !.waiters = Tail(@)]
         /\ taskPc' = [taskPc EXCEPT ![d] = "returned",
                                     ![Head(semaphore.waiters)] = "holding"]

\* SYSTEM_PROMPT_TEMPLATE.format(document=document.content), in tokens
FormatPrompt(document) == TemplateLen + document.content

\* utils.clip_tokens(text, max_tokens, model_id) when it returns: the text
\* cut to max_tokens tokens
ClipTokens(text, max_tokens) == IF text > max_tokens THEN max_tokens ELSE text

\* mutant: the prompt is lost when clip_tokens raises
InputUserPromptLost(prompt, raises) ==
    IF raises THEN 0 ELSE ClipTokens(prompt, MaxTokens)

\* input_user_prompt after the try/except around clip_tokens: as formatted
\* when clip_tokens raised, else what it returned
InputUserPrompt(prompt, raises) ==
    IF raises THEN prompt ELSE ClipTokens(prompt, MaxTokens)

\* what clip_tokens can do in a call: return, or raise
ClipRaises == IF clip_tokens_can_raise THEN BOOLEAN ELSE {FALSE}

\* log entry of a completion request issued in the current pass
ModelRequest(document, raises) ==
    [kind |-> "model", wait |-> await_time_seconds, clip_raised |-> raises,
     prompt |-> InputUserPrompt(FormatPrompt(document), raises)]

\* mutant: mock mode scores 1.0
MockDocumentFull(document) == AddQualityScore(document, 100)

\* mock mode's return value: document.add_quality_score(score=0.5)
MockDocument(document) == AddQualityScore(document, MockScore)

\* mock mode: the score is set at once, outside the semaphore
TaskMock(d) ==
    /\ InPass
    /\ taskPc[d] = "created"
    /\ mock
    /\ documents' = [documents EXCEPT ![d] = MockDocument(@)]
    /\ taskPc' = [taskPc EXCEPT ![d] = "returned"]
    /\ requests' = [requests EXCEPT
                       ![d] = Append(@, [kind |-> "mock", wait |-> 0,
                                         clip_raised |-> FALSE, prompt |-> 0])]
    /\ outcomes' = [outcomes EXCEPT ![d] = Append(@, "scored")]
    /\ Returned(d)
    /\ UNCHANGED <<loaded, storeVars, mock, max_concurrent_tasks, clip_tokens_can_raise, stepPc, ruleIdx, ruleCalls,
                   documents_with_rule_scores, documents_without_scores, batch,
                   await_time_seconds, semaphore, response, results,
                   evaluated_documents, retry_documents, scored_documents,
                   afterFirstPass, crawlVars, reportVars, requestVars>>

\* `async with semaphore`: with a free slot acquire() returns at once and
\* process_document runs up to `await acompletion(...)`; otherwise the task waits
TaskAcquire(d) ==
    /\ InPass
    /\ taskPc[d] = "created"
    /\ ~mock
    /\ IF Locked(semaphore)
       THEN /\ semaphore' = [semaphore EXCEPT !.waiters = Append(@, d)]
            /\ taskPc' = [taskPc EXCEPT ![d] = "waiting"]
            /\ UNCHANGED requests
       ELSE /\ semaphore' = [semaphore EXCEPT !.value = @ - 1]
            /\ taskPc' = [taskPc EXCEPT ![d] = "called"]
            /\ \E raises \in ClipRaises :
                  requests' = [requests EXCEPT
                                 ![d] = Append(@, ModelRequest(documents[d], raises))]
    /\ UNCHANGED <<documents, loaded, storeVars, mock, max_concurrent_tasks, clip_tokens_can_raise, stepPc, ruleIdx,
                   ruleCalls, documents_with_rule_scores, documents_without_scores,
                   batch, await_time_seconds, response, completed, results,
                   evaluated_documents, retry_documents, scored_documents,
                   outcomes, afterFirstPass, crawlVars, reportVars, requestVars>>

\* a woken waiter resumes with its slot and runs process_document up to
\* `await acompletion(...)`
TaskRequest(d) ==
    /\ InPass
    /\ taskPc[d] = "holding"
    /\ taskPc' = [taskPc EXCEPT ![d] = "called"]
    /\ \E raises \in ClipRaises :
          requests' = [requests EXCEPT
                         ![d] = Append(@, ModelRequest(documents[d], raises))]
    /\ UNCHANGED <<documents, loaded, storeVars, mock, max_concurrent_tasks, clip_tokens_can_raise, stepPc, ruleIdx,
                   ruleCalls, documents_with_rule_scores, documents_without_scores,
                   batch, await_time_seconds, semaphore, response, completed,
                   results, evaluated_documents, retry_documents,
                   scored_documents, outcomes, afterFirstPass, crawlVars, reportVars, requestVars>>

\* acompletion raises: `except Exception` returns the document, no pause
TaskRequestRaises(d) ==
    /\ InPass
    /\ taskPc[d] = "called"
    /\ Release(d)
    /\ outcomes' = [outcomes EXCEPT ![d] = Append(@, "unresolved")]
    /\ answers' = [answers EXCEPT ![d] = Append(@, "invalid")]
    /\ Returned(d)
    /\ UNCHANGED <<documents, loaded, storeVars, mock, max_concurrent_tasks, clip_tokens_can_raise, stepPc, ruleIdx,
                   ruleCalls, documents_with_rule_scores, documents_without_scores,
                   batch, await_time_seconds, response, results,
                   evaluated_documents, retry_documents, scored_documents,
                   requests, afterFirstPass, crawlVars, reportVars>>

\* acompletion returns `response`; asyncio.sleep(await_time_seconds) starts
TaskResponse(d) ==
    /\ InPass
    /\ taskPc[d] = "called"
    /\ \E resp \in Responses : response' = [response EXCEPT ![d] = Some(resp)]
    /\ taskPc' = [taskPc EXCEPT ![d] = "sleeping"]
    /\ UNCHANGED <<documents, loaded, storeVars, mock, max_concurrent_tasks, clip_tokens_can_raise, stepPc, ruleIdx,
                   ruleCalls, documents_with_rule_scores, documents_without_scores,
                   batch, await_time_seconds, semaphore, completed, results,
                   evaluated_documents, retry_documents, scored_documents,
                   requests, outcomes, afterFirstPass, crawlVars, reportVars, requestVars>>

\* the pause is over: the response is read, the document returned, the slot freed
TaskAfterSleep(d) ==
    /\ InPass
    /\ taskPc[d] = "sleeping"
    /\ documents' = [documents EXCEPT ![d] = ProcessResponse(@, response[d][1])]
    /\ response' = [response EXCEPT ![d] = None]
    /\ Release(d)
    /\ outcomes' = [outcomes EXCEPT
                      ![d] = Append(@, IF IsScored(documents'[d])
                                       THEN "scored" ELSE "unresolved")]
    /\ answers' = [answers EXCEPT
                     ![d] = Append(@, IF DecodesToScore(response[d][1])
                                      THEN "valid" ELSE "invalid")]
    /\ Returned(d)
    /\ UNCHANGED <<loaded, storeVars, mock, max_concurrent_tasks, clip_tokens_can_raise, stepPc, ruleIdx, ruleCalls,
                   documents_with_rule_scores, documents_without_scores, batch,
                   await_time_seconds, results, evaluated_documents,
                   retry_documents, scored_documents, requests, afterFirstPass, crawlVars, reportVars>>

(* ---------------- ModelBasedQualityAgent: the two passes --------------- *)
\* __process_batch's loop over as_completed: result = await coro; append
Collect ==
    /\ InPass
    /\ completed # <<>>
    /\ results' = Append(results, Head(completed))
    /\ completed' = Tail(completed)
    /\ UNCHANGED <<documents, loaded, storeVars, mock, max_concurrent_tasks, clip_tokens_can_raise, stepPc, ruleIdx,
                   ruleCalls, documents_with_rule_scores, documents_without_scores,
                   batch, await_time_seconds, semaphore, taskPc, response,
                   evaluated_documents, retry_documents, scored_documents,
                   requests, outcomes, afterFirstPass, crawlVars, reportVars, requestVars>>

\* mutant: the loop over as_completed left after the first result
AllCollectedFirst(collected, docs) == collected # <<>> \/ docs = <<>>

\* the loop over as_completed is over: every task has handed in its result
AllCollected(collected, docs) == Len(collected) = Len(docs)

\* the first pass is over and left documents without a score: the retry pass
FirstPassEndRetry ==
    /\ stepPc = "first_pass"
    /\ AllCollected(results, batch)
    /\ WithoutScores(results, documents) # <<>>
    /\ evaluated_documents' = results
    /\ retry_documents' = WithoutScores(results, documents)
    /\ StartBatch(WithoutScores(results, documents), RetryAwait)
    /\ stepPc' = "retry_pass"
    /\ afterFirstPass' = documents
    /\ UNCHANGED <<documents, loaded, storeVars, mock, max_concurrent_tasks, clip_tokens_can_raise, ruleIdx, ruleCalls,
                   documents_with_rule_scores, documents_without_scores, response,
                   scored_documents, requests, outcomes, crawlVars, reportVars, requestVars>>

\* the first pass is over with every document scored: the agent reports its
\* counts and returns, and add_quality_score joins the two lists
FirstPassEndReturn ==
    /\ stepPc = "first_pass"
    /\ AllCollected(results, batch)
    /\ WithoutScores(results, documents) = <<>>
    /\ evaluated_documents' = results
    /\ agent_counts' = Some(AgentCounts(results, Len(batch)))
    /\ documents_with_model_scores' =
           AgentReturn(results, WithScores(results, documents))
    /\ scored_documents' =
           StepReturn(documents_with_rule_scores, documents_with_model_scores')
    /\ step_metadata' =
           Some(StepMetadata(documents, scored_documents',
                             documents_with_rule_scores,
                             documents_with_model_scores'))
    /\ stepPc' = "done"
    /\ afterFirstPass' = documents
    /\ UNCHANGED <<documents, loaded, storeVars, mock, max_concurrent_tasks, clip_tokens_can_raise, ruleIdx, ruleCalls,
                   documents_with_rule_scores, documents_without_scores, batch,
                   await_time_seconds, semaphore, taskPc, response, completed,
                   results, retry_documents, requests, outcomes, crawlVars,
                   requestVars>>

\* the retry pass is over: the agent reports its counts and returns, and
\* add_quality_score joins the two lists
RetryPassEnd ==
    /\ stepPc = "retry_pass"
    /\ AllCollected(results, batch)
    /\ agent_counts' = Some(AgentCounts(evaluated_documents,
                                        Len(documents_without_scores)))
    /\ documents_with_model_scores' =
           AgentReturn(evaluated_documents,
                       WithScores(evaluated_documents, afterFirstPass) \o results)
    /\ scored_documents' =
           StepReturn(documents_with_rule_scores, documents_with_model_scores')
    /\ step_metadata' =
           Some(StepMetadata(documents, scored_documents',
                             documents_with_rule_scores,
                             documents_with_model_scores'))
    /\ stepPc' = "done"
    /\ UNCHANGED <<documents, loaded, storeVars, mock, max_concurrent_tasks, clip_tokens_can_raise, ruleIdx, ruleCalls,
                   documents_with_rule_scores, documents_without_scores, batch,
                   await_time_seconds, semaphore, taskPc, response, completed,
                   results, evaluated_documents, retry_documents, requests,
                   outcomes, afterFirstPass, crawlVars, requestVars>>


(* ---------------------------- Crawl4AICrawler -------------------------- *)
\* what crawler.arun returns when it returns: nothing, a failed fetch, a page
\* without markdown, or a page with its text and its links
CrawlResults ==
    {[present |-> FALSE],
     [present |-> TRUE, success |-> FALSE],
     [present |-> TRUE, success |-> TRUE, markdown |-> None]}
    \cup {[present |-> TRUE, success |-> TRUE, markdown |-> Some(0), links |-> <<>>],
          [present |-> TRUE, success |-> TRUE, markdown |-> Some(MaxContentLen),
           links |-> <<1, 1>>]}

\* __crawl_url, from the crawl result to its return value
CrawledDocument(parent, url, result) ==
    IF ~result.present \/ ~result.success
    THEN None
    ELSE IF result.markdown = None
         THEN None
         ELSE Some([url |-> url,
                    parent |-> parent,
                    content |-> result.markdown[1],
                    child_urls |-> result.links,
                    content_quality_score |-> None])

\* the log after `await crawler.arun(url=url)` was called by task t of
\* source document doc
Arun(calls, doc, t) == [calls EXCEPT ![doc][t] = @ + 1]

\* the tasks between acquiring and releasing their slot
CrawlInside == {t \in DOMAIN crawlTask : crawlTask[t] \in {"holding", "fetching", "sleeping"}}

\* mutant: a task that ends with an exception keeps its slot
CrawlReleaseUnlessRaised(t, pc) ==
    IF pc = "raised"
    THEN /\ crawlTask' = [crawlTask EXCEPT ![t] = pc]
         /\ UNCHANGED request_limiter
    ELSE IF request_limiter.waiters = <<>>
         THEN /\ request_limiter' = [request_limiter EXCEPT !.value = @ + 1]
              /\ crawlTask' = [crawlTask EXCEPT ![t] = pc]
         ELSE /\ request_limiter' = [request_limiter EXCEPT !.waiters = Tail(@)]
              /\ crawlTask' = [crawlTask EXCEPT ![t] = pc,
                                                ![Head(request_limiter.waiters)] = "holding"]

\* `async with request_limiter` is left by task t, which goes to `pc`
CrawlRelease(t, pc) ==
    IF request_limiter.waiters = <<>>
    THEN /\ request_limiter' = [request_limiter EXCEPT !.value = @ + 1]
         /\ crawlTask' = [crawlTask EXCEPT ![t] = pc]
    ELSE /\ request_limiter' = [request_limiter EXCEPT !.waiters = Tail(@)]
         /\ crawlTask' = [crawlTask EXCEPT ![t] = pc,
                                           ![Head(request_limiter.waiters)] = "holding"]

\* Crawl4AICrawler.__call__: __crawl_batch creates its semaphore
CrawlBegin ==
    /\ crawlPc = "idle"
    /\ request_limiter' = NewSemaphore(max_concurrent_tasks)
    /\ crawled_results' = <<>>
    /\ crawlPc' = "loop"
    /\ UNCHANGED <<documents, loaded, storeVars, max_concurrent_tasks, clip_tokens_can_raise, scoreVars, comprehensive_collection, fetch_calls, docPos,
                   crawlTask, crawl_result, batch_results, child_pages, summary>>

\* the loop's next source document: one task per child URL, then gather
CrawlSpawn ==
    /\ crawlPc = "loop"
    /\ docPos < Len(documents)
    /\ docPos' = docPos + 1
    /\ LET urls == documents[docPos + 1].child_urls
       IN  /\ crawlTask' = [t \in DOMAIN urls |-> "created"]
           /\ crawl_result' = [t \in DOMAIN urls |-> None]
           /\ batch_results' = [t \in DOMAIN urls |-> None]
           /\ fetch_calls' = Append(fetch_calls, [t \in DOMAIN urls |-> 0])
    /\ crawlPc' = "gather"
    /\ UNCHANGED <<documents, loaded, storeVars, max_concurrent_tasks, clip_tokens_can_raise, scoreVars, comprehensive_collection,
                   request_limiter, crawled_results, child_pages, summary>>

\* `async with request_limiter`: with a free slot the task goes on to
\* crawler.arun(url); otherwise it waits
CrawlTaskAcquire(t) ==
    /\ crawlTask[t] = "created"
    /\ IF Locked(request_limiter)
       THEN /\ request_limiter' = [request_limiter EXCEPT !.waiters = Append(@, t)]
            /\ crawlTask' = [crawlTask EXCEPT ![t] = "waiting"]
            /\ UNCHANGED fetch_calls
       ELSE /\ request_limiter' = [request_limiter EXCEPT !.value = @ - 1]
            /\ crawlTask' = [crawlTask EXCEPT ![t] = "fetching"]
            /\ fetch_calls' = Arun(fetch_calls, docPos, t)
    /\ UNCHANGED <<documents, loaded, storeVars, max_concurrent_tasks, clip_tokens_can_raise, scoreVars, comprehensive_collection, crawlPc,
                   docPos, crawl_result, batch_results, crawled_results,
                   child_pages, summary>>

\* a woken waiter resumes with its slot and calls crawler.arun(url)
CrawlTaskFetch(t) ==
    /\ crawlTask[t] = "holding"
    /\ crawlTask' = [crawlTask EXCEPT ![t] = "fetching"]
    /\ fetch_calls' = Arun(fetch_calls, docPos, t)
    /\ UNCHANGED <<documents, loaded, storeVars, max_concurrent_tasks, clip_tokens_can_raise, scoreVars, comprehensive_collection, crawlPc,
                   docPos, request_limiter, crawl_result, batch_results,
                   crawled_results, child_pages, summary>>

\* crawler.arun returns `crawl_result`; asyncio.sleep(0.5) starts
CrawlTaskFetched(t) ==
    /\ crawlTask[t] = "fetching"
    /\ \E r \in CrawlResults : crawl_result' = [crawl_result EXCEPT ![t] = Some(r)]
    /\ crawlTask' = [crawlTask EXCEPT ![t] = "sleeping"]
    /\ UNCHANGED <<documents, loaded, storeVars, max_concurrent_tasks, clip_tokens_can_raise, scoreVars, comprehensive_collection, fetch_calls, crawlPc,
                   docPos, request_limiter, batch_results, crawled_results,
                   child_pages, summary>>

\* crawler.arun raises: nothing in __crawl_url catches it, the slot is freed
\* and the task ends with the exception
CrawlTaskFetchRaises(t) ==
    /\ crawlTask[t] = "fetching"
    /\ CrawlRelease(t, "raised")
    /\ UNCHANGED <<documents, loaded, storeVars, max_concurrent_tasks, clip_tokens_can_raise, scoreVars, comprehensive_collection, fetch_calls, crawlPc,
                   docPos, crawl_result, batch_results, crawled_results,
                   child_pages, summary>>

\* the pause is over: the result is read, None or a Document returned, the
\* slot freed
CrawlTaskAfterSleep(t) ==
    /\ crawlTask[t] = "sleeping"
    /\ batch_results' =
           [batch_results EXCEPT
              ![t] = CrawledDocument(docPos, documents[docPos].child_urls[t],
                                     crawl_result[t][1])]
    /\ crawl_result' = [crawl_result EXCEPT ![t] = None]
    /\ CrawlRelease(t, "returned")
    /\ UNCHANGED <<documents, loaded, storeVars, max_concurrent_tasks, clip_tokens_can_raise, scoreVars, comprehensive_collection, fetch_calls, crawlPc,
                   docPos, crawled_results, child_pages, summary>>

\* asyncio.gather returns the tasks' results, in task order
CrawlGathered ==
    /\ crawlPc = "gather"
    /\ \A t \in DOMAIN crawlTask : crawlTask[t] = "returned"
    /\ crawled_results' = crawled_results \o batch_results
    /\ crawlPc' = "loop"
    /\ UNCHANGED <<documents, loaded, storeVars, max_concurrent_tasks, clip_tokens_can_raise, scoreVars, comprehensive_collection, fetch_calls, docPos,
                   request_limiter, crawlTask, crawl_result, batch_results,
                   child_pages, summary>>

\* asyncio.gather raises a task's exception: __crawl_batch and the crawl step
\* end with it
CrawlGatherRaises ==
    /\ crawlPc = "gather"
    /\ \E t \in DOMAIN crawlTask : crawlTask[t] = "raised"
    /\ crawlPc' = "aborted"
    /\ UNCHANGED <<documents, loaded, storeVars, max_concurrent_tasks, clip_tokens_can_raise, scoreVars, comprehensive_collection, fetch_calls, docPos,
                   request_limiter, crawlTask, crawl_result, batch_results,
                   crawled_results, child_pages, summary>>

\* the event loop shuts down after the exception: a task still pending is
\* cancelled, leaves the waiters or frees its slot
CrawlTaskCancelled(t) ==
    /\ crawlPc = "aborted"
    /\ crawlTask[t] \in {"created", "waiting", "holding", "fetching", "sleeping"}
    /\ IF crawlTask[t] = "created"
       THEN /\ crawlTask' = [crawlTask EXCEPT ![t] = "cancelled"]
            /\ UNCHANGED request_limiter
       ELSE IF crawlTask[t] = "waiting"
            THEN /\ crawlTask' = [crawlTask EXCEPT ![t] = "cancelled"]
                 /\ request_limiter' =
                        [request_limiter EXCEPT
                           !.waiters = SelectSeq(@, LAMBDA w : w # t)]
            ELSE CrawlRelease(t, "cancelled")
    /\ crawl_result' = [crawl_result EXCEPT ![t] = None]
    /\ UNCHANGED <<documents, loaded, storeVars, max_concurrent_tasks, clip_tokens_can_raise, scoreVars, comprehensive_collection, fetch_calls, crawlPc,
                   docPos, batch_results, crawled_results, child_pages, summary>>

\* mutant: the successful documents, the last one first
SuccessfulReversed(crawled) ==
    LET kept == SelectSeq(crawled, LAMBDA r : r # None)
    IN  [i \in 1..Len(kept) |-> kept[Len(kept) + 1 - i][1]]

\* [result for result in results if result is not None]
Successful(crawled) ==
    LET kept == SelectSeq(crawled, LAMBDA r : r # None)
    IN  [i \in 1..Len(kept) |-> kept[i][1]]

\* the loop is over: the successful documents, the summary, the return
CrawlFinish ==
    /\ crawlPc = "loop"
    /\ docPos = Len(documents)
    /\ child_pages' = Successful(crawled_results)
    /\ summary' = Some([success_count |-> Len(Successful(crawled_results)),
                        failed_count |-> Len(crawled_results)
                                           - Len(Successful(crawled_results)),
                        total_attempts |-> Len(crawled_results)])
    /\ crawlPc' = "done"
    /\ UNCHANGED <<documents, loaded, storeVars, max_concurrent_tasks, clip_tokens_can_raise, scoreVars, comprehensive_collection, fetch_calls, docPos,
                   request_limiter, crawlTask, crawl_result, batch_results,
                   crawled_results>>

(* ------------------------------ crawl step ----------------------------- *)
RECURSIVE SetOfLast(_, _)
\* mutant: an element that equals one in the set takes its place
SetOfLast(docs, kept) ==
    IF docs = <<>>
    THEN kept
    ELSE IF \E k \in 1..Len(kept) : kept[k].id = Head(docs).id
         THEN SetOfLast(Tail(docs),
                        [k \in 1..Len(kept) |->
                            IF kept[k].id = Head(docs).id THEN Head(docs) ELSE kept[k]])
         ELSE SetOfLast(Tail(docs), Append(kept, Head(docs)))

RECURSIVE SetOf(_, _)
\* set(docs): the elements are added in turn, and one that equals an element
\* already in the set (Document.__eq__: the same id) is not added
SetOf(docs, kept) ==
    IF docs = <<>>
    THEN kept
    ELSE IF \E k \in 1..Len(kept) : kept[k].id = Head(docs).id
         THEN SetOf(Tail(docs), kept)
         ELSE SetOf(Tail(docs), Append(kept, Head(docs)))

\* list(a set): its elements once each, in an order the hashes decide
ListsOf(elements) ==
    {[i \in 1..Len(elements) |-> elements[f[i]]] :
        f \in {g \in [1..Len(elements) -> 1..Len(elements)] :
                 \A i, j \in 1..Len(elements) : g[i] = g[j] => i = j}}

\* mutant: the two lists joined, without set()
MergedNoSet(source_documents, pages) == {source_documents \o pages}

\* the lists list(set(source_documents.copy() extended by child_pages)) can be
Merged(source_documents, pages) == ListsOf(SetOf(source_documents \o pages, <<>>))

\* mutant: no copy, the extend acts on the caller's list
SourceAfterExtendInPlace(source_documents, pages) == source_documents \o pages

\* the caller's source_documents after `source_documents.copy()` was extended
\* by child_pages: the copy is another list
SourceAfterExtend(source_documents, pages) == source_documents

\* the crawl step after `child_pages = crawler(source_documents)`: the merge
\* and the return
CrawlMerge ==
    /\ crawlPc = "returned"
    /\ comprehensive_collection' \in Merged(documents, child_pages)
    /\ documents' = SourceAfterExtend(documents, child_pages)
    /\ crawlPc' = "merged"
    /\ UNCHANGED <<loaded, storeVars, max_concurrent_tasks, clip_tokens_can_raise, scoreVars, docPos, fetch_calls,
                   request_limiter, crawlTask, crawl_result, batch_results,
                   crawled_results, child_pages, summary>>

CrawlAcquire == \E t \in DOMAIN crawlTask : CrawlTaskAcquire(t)

CrawlFetch == \E t \in DOMAIN crawlTask : CrawlTaskFetch(t)

CrawlFetched == \E t \in DOMAIN crawlTask : CrawlTaskFetched(t)

CrawlFetchRaises == \E t \in DOMAIN crawlTask : CrawlTaskFetchRaises(t)

CrawlAfterSleep == \E t \in DOMAIN crawlTask : CrawlTaskAfterSleep(t)

CrawlCancelled == \E t \in DOMAIN crawlTask : CrawlTaskCancelled(t)

\* The source documents of a crawl: fresh documents with child URLs, two URL
\* values in turn (from three on, a URL occurs twice); a crawl fetches at most
\* MaxCrawlUrls URLs in all.
CrawlSources ==
    {[content |-> MaxContentLen,
      child_urls |-> [i \in 1..n |-> 2 - (i % 2)],
      content_quality_score |-> None] : n \in 0..MaxCrawlUrls}

InitCrawl ==
    /\ documents \in {docs \in SeqsUpTo(CrawlSources, MaxSources) :
                        TotalUrls(docs) <= MaxCrawlUrls}
    /\ loaded = documents
    /\ mock = FALSE
    /\ max_concurrent_tasks \in 1..MaxConcurrentTasks
    /\ clip_tokens_can_raise = FALSE
    /\ stepPc = "off"
    /\ crawlPc = "idle"
    /\ Idle

NextCrawl ==
    \/ CrawlBegin
    \/ CrawlSpawn
    \/ CrawlAcquire
    \/ CrawlFetch
    \/ CrawlFetched
    \/ CrawlFetchRaises
    \/ CrawlAfterSleep
    \/ CrawlGathered
    \/ CrawlGatherRaises
    \/ CrawlCancelled
    \/ CrawlFinish

\* the ids documents carry: what is read from disk, and what
\* utils.generate_random_hex can return
IdSpace == 1..MaxIds

\* The source documents of a merge, by id.
MergeSources ==
    {[id |-> id, content |-> MaxContentLen] : id \in IdSpace}

\* The child pages of a merge: any id, with and without content.
MergePages ==
    {[id |-> id, content |-> c] : id \in IdSpace, c \in {0, MaxContentLen}}

\* The crawl step when the crawler has returned (its own variables play no
\* part): any source documents and any child pages, the source documents
\* themselves among them.
InitMerge ==
    /\ documents \in SeqsUpTo(MergeSources, MaxMergeDocs)
    /\ child_pages \in SeqsUpTo(MergePages, MaxMergeDocs)
    /\ loaded = documents
    /\ mock = FALSE
    /\ max_concurrent_tasks = 1
    /\ clip_tokens_can_raise = FALSE
    /\ stepPc = "off"
    /\ crawlPc = "returned"
    /\ IdleLocals
    /\ StoreIdle

NextMerge == CrawlMerge

(* --------------------------- store_to_mongodb -------------------------- *)
\* mutant: the step does not look at the list
StoreRejectsNothing(document_models) == FALSE

\* `if not document_models`: the step's check of its input
StoreRejects(document_models) == document_models = <<>>

\* [document.model_dump() for document in documents], "_id" popped: the
\* documents' fields as dictionaries (a Document has no "_id" field)
Serialised(docs) ==
    [i \in 1..Len(docs) |->
        [content |-> docs[i].content,
         child_urls |-> docs[i].child_urls,
         content_quality_score |-> docs[i].content_quality_score]]

\* the step ends with an exception; inside the `with`, __exit__ closes the client
StoreRaise(error, opened) ==
    /\ storePc' = "raised"
    /\ store_error' = Some(error)
    /\ mongo_calls' = mongo_calls \o opened
    /\ UNCHANGED final_document_count

\* everything but the step's own variables
StoreFrame ==
    UNCHANGED <<documents, loaded, max_concurrent_tasks, clip_tokens_can_raise, scoreVars, crawlVars,
                clear_existing_data, collection_at_call>>

\* an empty list: ValueError, before MongoDBService is constructed
StoreReject ==
    /\ storePc = "called"
    /\ StoreRejects(documents)
    /\ StoreRaise("ValueError", <<>>)
    /\ UNCHANGED collection
    /\ StoreFrame

\* MongoDBService.__init__: MongoClient and the ping succeed
StoreConnect ==
    /\ storePc = "called"
    /\ ~StoreRejects(documents)
    /\ mongo_calls' = Append(mongo_calls, "connect")
    /\ storePc' = "connected"
    /\ UNCHANGED <<collection, store_error, final_document_count>>
    /\ StoreFrame

\* MongoDBService.__init__: MongoClient or the ping raises, and it is re-raised
StoreConnectRaises ==
    /\ storePc = "called"
    /\ ~StoreRejects(documents)
    /\ StoreRaise("ConnectionError", <<"connect">>)
    /\ UNCHANGED collection
    /\ StoreFrame

\* `if clear_existing_data: clear_collection()`: delete_many({}) empties the
\* collection; without the flag nothing is called
StoreClear ==
    /\ storePc = "connected"
    /\ IF clear_existing_data
       THEN /\ collection' = <<>>
            /\ mongo_calls' = Append(mongo_calls, "delete_many")
       ELSE UNCHANGED <<collection, mongo_calls>>
    /\ storePc' = "cleared"
    /\ UNCHANGED <<store_error, final_document_count>>
    /\ StoreFrame

\* delete_many raises PyMongoError: re-raised, the collection as it was
StoreClearRaises ==
    /\ storePc = "connected"
    /\ clear_existing_data
    /\ StoreRaise("PyMongoError", <<"delete_many", "close">>)
    /\ UNCHANGED collection
    /\ StoreFrame

\* MongoDBService.store_documents: an empty list is a ValueError of its own;
\* else insert_many adds the serialised documents
StoreInsert ==
    /\ storePc = "cleared"
    /\ IF documents = <<>>
       THEN /\ StoreRaise("ValueError", <<"close">>)
            /\ UNCHANGED collection
       ELSE /\ collection' = collection \o Serialised(documents)
            /\ mongo_calls' = Append(mongo_calls, "insert_many")
            /\ storePc' = "stored"
            /\ UNCHANGED <<store_error, final_document_count>>
    /\ StoreFrame

\* insert_many raises PyMongoError: an ordered bulk insert has added the
\* documents before the failing one
StoreInsertRaises ==
    /\ storePc = "cleared"
    /\ documents # <<>>
    /\ \E n \in 0..(Len(documents) - 1) :
          collection' = collection \o SubSeq(Serialised(documents), 1, n)
    /\ StoreRaise("PyMongoError", <<"insert_many", "close">>)
    /\ StoreFrame

\* get_collection_count, the step's metadata, the return; __exit__ closes
StoreCount ==
    /\ storePc = "stored"
    /\ final_document_count' = Some(Len(collection))
    /\ mongo_calls' = mongo_calls \o <<"count_documents", "close">>
    /\ storePc' = "done"
    /\ UNCHANGED <<collection, store_error>>
    /\ StoreFrame

\* count_documents raises PyMongoError: re-raised
StoreCountRaises ==
    /\ storePc = "stored"
    /\ StoreRaise("PyMongoError", <<"count_documents", "close">>)
    /\ UNCHANGED collection
    /\ StoreFrame

\* The documents the step is handed, and the ones a collection can hold.
StoreDocuments ==
    {[content |-> c, child_urls |-> <<>>, content_quality_score |-> s] :
        c \in {0, MaxContentLen}, s \in {None, Some(MockScore)}}

InitStore ==
    /\ documents \in SeqsUpTo(StoreDocuments, MaxStoreDocs)
    /\ loaded = documents
    /\ mock = FALSE
    /\ max_concurrent_tasks = 1
    /\ clip_tokens_can_raise = FALSE
    /\ stepPc = "off"
    /\ crawlPc = "off"
    /\ IdleLocals
    /\ child_pages = <<>>
    /\ storePc = "called"
    /\ clear_existing_data \in BOOLEAN
    /\ collection \in SeqsUpTo(StoreDocuments, MaxStored)
    /\ collection_at_call = collection
    /\ mongo_calls = <<>>
    /\ store_error = None
    /\ final_document_count = None

NextStore ==
    \/ StoreReject
    \/ StoreConnect
    \/ StoreConnectRaises
    \/ StoreClear
    \/ StoreClearRaises
    \/ StoreInsert
    \/ StoreInsertRaises
    \/ StoreCount
    \/ StoreCountRaises

(* ---------------------------- specifications --------------------------- *)
NextRules == RuleAgentCall

Mock == \E d \in DOMAIN documents : TaskMock(d)

Acquire == \E d \in DOMAIN documents : TaskAcquire(d)

Request == \E d \in DOMAIN documents : TaskRequest(d)

RequestRaises == \E d \in DOMAIN documents : TaskRequestRaises(d)

Response == \E d \in DOMAIN documents : TaskResponse(d)

AfterSleep == \E d \in DOMAIN documents : TaskAfterSleep(d)

NextScore ==
    \/ RuleStep
    \/ StartModelTier
    \/ Mock
    \/ Acquire
    \/ Request
    \/ RequestRaises
    \/ Response
    \/ AfterSleep
    \/ Collect
    \/ FirstPassEndRetry
    \/ FirstPassEndReturn
    \/ RetryPassEnd

\* the steps of a scoring run that calls the model for one document: no
\* task waits for a slot
NextPrompt ==
    \/ RuleStep
    \/ StartModelTier
    \/ Acquire
    \/ RequestRaises
    \/ Response
    \/ AfterSleep
    \/ Collect
    \/ FirstPassEndRetry
    \/ FirstPassEndReturn
    \/ RetryPassEnd

\* the steps of a scoring run in mock mode
NextScenario ==
    \/ RuleStep
    \/ StartModelTier
    \/ Mock
    \/ Collect
    \/ FirstPassEndReturn

SpecRules == InitRules /\ [][NextRules]_vars

SpecScenario == InitScenario /\ [][NextScenario]_vars

SpecScore == InitScore /\ [][NextScore]_vars

SpecPrompt == InitPrompt /\ [][NextPrompt]_vars

SpecCrawl == InitCrawl /\ [][NextCrawl]_vars

SpecMerge == InitMerge /\ [][NextMerge]_vars

\* the crawl step in its two parts: a run of the crawler, and the merge of
\* what a crawler has returned
SpecCrawlStep == (InitCrawl \/ InitMerge) /\ [][NextCrawl \/ NextMerge]_vars

SpecStore == InitStore /\ [][NextStore]_vars

\* a run of one step of the pipeline: the scoring, the crawler, the merge of
\* the crawl step, or the storing
SpecSteps ==
    (InitScore \/ InitCrawl \/ InitMerge \/ InitStore)
       /\ [][NextScore \/ NextCrawl \/ NextMerge \/ NextStore]_vars

\* a run of any of the three
Spec == (InitRules \/ InitScore \/ InitCrawl)
          /\ [][NextRules \/ NextScore \/ NextCrawl]_vars

\* a run of any of the three in which the event loop goes on while a task or
\* the caller can take a step, and every call and every pause ends
FairSpec == Spec /\ WF_vars(NextRules \/ NextScore \/ NextCrawl)

(* ------------------------------- claims -------------------------------- *)
\* the scoring tasks between acquiring and releasing their slot
ScoreInside == {d \in DOMAIN taskPc : taskPc[d] \in {"holding", "called", "sleeping"}}

\* the document indices of a run
Docs == DOMAIN documents

\* s holds every element of S exactly once
IsListingOf(s, S) == Range(s) = S /\ Len(s) = Cardinality(S)

\* C1: every batch of N items returns and records exactly N outcomes,
\* successes plus recorded failures, whatever fails: a scoring pass hands back
\* each of its documents once, and a crawl that is over has a summary whose
\* counts add up to the number of child URLs.
C1_ExactlyNOutcomes ==
    /\ stepPc \in {"retry_pass", "done"}
          => IsListingOf(evaluated_documents, Range(documents_without_scores))
    /\ (stepPc = "done" /\ retry_documents # <<>>)
          => IsListingOf(results, Range(retry_documents))
    /\ crawlPc \in {"done", "aborted"}
          => /\ summary # None
             /\ summary[1].success_count + summary[1].failed_count
                   = TotalUrls(documents)
             /\ Len(crawled_results) = TotalUrls(documents)

\* C2: at most K operations are inside the limiter at any time, in the
\* model-scoring batch and in the crawler batch.
C2_AtMostKInside ==
    /\ Cardinality(ScoreInside) <= max_concurrent_tasks
    /\ Cardinality(CrawlInside) <= max_concurrent_tasks

\* C2 witness: a crawl with K = 2 has two fetches inside the limiter, one of
\* them in its pacing delay, and a third task waiting for a slot.
C2_Witness ==
    /\ max_concurrent_tasks = 2
    /\ Cardinality(CrawlInside) = 2
    /\ \E t \in CrawlInside : crawlTask[t] = "sleeping"
    /\ request_limiter.waiters # <<>>

\* C3: a failing item (the collaborator raising included) is turned into an
\* item left unscored or unfetched: no task ends with an exception, the batch
\* is not aborted and no sibling is cancelled.
C3_FailureStaysInItem ==
    /\ crawlPc # "aborted"
    /\ \A t \in DOMAIN crawlTask : crawlTask[t] \notin {"raised", "cancelled"}

\* the score the rule policy gives a document: 0.0 without content or with a
\* URL ratio of 0.7 and more, 0.2 from 0.5 on, else the score it had
PolicyScore(document) ==
    LET len == document.content
        den == IF len > 1 THEN len ELSE 1
        urls == SumLen(document.child_urls)
    IN  IF len = 0 \/ urls * 10 >= 7 * den
        THEN Some(0)
        ELSE IF urls * 10 >= 5 * den THEN Some(20) ELSE document.content_quality_score

\* C4: a call of the rule tier gives every document the score of the policy
\* (0.0 / 0.0 / 0.2 / left as it was), the thresholds 0.7 and 0.5 included.
C4_RuleTierPolicy ==
    [][ruleCalls' = ruleCalls + 1
          => \A d \in Docs :
                documents'[d].content_quality_score = PolicyScore(documents[d])]_vars

\* C4 witness: the rule tier was called on a fresh document whose URL ratio
\* is exactly 0.7 (7 of 10), and it holds the score 0.0.
C4_Witness ==
    /\ ruleCalls = 1
    /\ \E d \in Docs :
          /\ loaded[d].content_quality_score = None
          /\ documents[d].content = 10
          /\ SumLen(documents[d].child_urls) = 7
          /\ documents[d].content_quality_score = Some(0)

\* C5: the rule tier does not change the score of a document that has one.
C5_RuleTierKeepsScore ==
    [][ruleCalls' = ruleCalls + 1
          => \A d \in Docs :
                IsScored(documents[d])
                   => documents'[d].content_quality_score
                         = documents[d].content_quality_score]_vars

\* C6: in a scoring run, the score of a document that started without one
\* changes at most once: once set it keeps its value.
C6_ScoreSetOnce ==
    [][\A d \in Docs :
          (~IsScored(loaded[d]) /\ IsScored(documents[d]))
             => documents'[d].content_quality_score
                   = documents[d].content_quality_score]_vars

\* C6 witness: the run is over; one document was scored on the first model
\* pass and kept that score while the other went through the retry pass.
C6_Witness ==
    /\ stepPc = "done"
    /\ ~mock
    /\ \E d, e \in Docs :
          /\ Len(requests[d]) = 1
          /\ IsScored(afterFirstPass[d])
          /\ documents[d] = afterFirstPass[d]
          /\ Len(requests[e]) = 2
          /\ IsScored(documents[e])

\* C7: the rule tier has gone through every document before the model tier
\* starts, and a document is submitted to the model tier (or mock-scored) only
\* if the rule tier left it without a score.
C7_RulesBeforeModel ==
    /\ stepPc = "rules"
          => \A d \in Docs : requests[d] = <<>> /\ taskPc[d] = "none"
    /\ stepPc \in {"first_pass", "retry_pass", "done"} => ruleIdx = Len(documents)
    /\ \A d \in Docs :
          (requests[d] # <<>> \/ taskPc[d] # "none")
             => ~IsScored(ApplyQualityRules(loaded[d]))

\* C7 witness: the run is over, a document got its score from the rule tier
\* and none from the model, the other was submitted to the model tier.
C7_Witness ==
    /\ stepPc = "done"
    /\ \E d, e \in Docs :
          /\ ~IsScored(loaded[d])
          /\ documents[d].content_quality_score = Some(20)
          /\ requests[d] = <<>>
          /\ requests[e] # <<>>

\* C8: a document left without a score by the first pass is submitted once
\* more, with a pause of 20 s after one of 7 s; a document scored on the first
\* pass is not; no document is submitted more than twice.
C8_RetryOnce ==
    \A d \in Docs :
       /\ Len(requests[d]) <= 2
       /\ Len(requests[d]) = 2
             => /\ requests[d][1].wait = 7
                /\ requests[d][2].wait = 20
                /\ requests[d][2].wait > requests[d][1].wait
                /\ stepPc \in {"retry_pass", "done"}
                /\ ~IsScored(afterFirstPass[d])
       /\ (stepPc = "done" /\ requests[d] # <<>>)
             => IF IsScored(afterFirstPass[d])
                THEN Len(requests[d]) = 1
                ELSE Len(requests[d]) = 2

\* C8 witness: the run is over and a document was submitted twice.
C8_Witness ==
    /\ stepPc = "done"
    /\ \E d, e \in Docs :
          /\ Len(requests[d]) = 2
          /\ Len(requests[e]) = 1
          /\ requests[e][1].kind = "model"

\* C9: a document whose evaluation failed on both passes ends the run without
\* a score and in the returned collection, and the run is never stuck before
\* it returns.
C9_UnresolvedKept ==
    /\ stepPc = "done"
          => \A d \in Docs :
                outcomes[d] = <<"unresolved", "unresolved">>
                   => /\ ~IsScored(documents[d])
                      /\ d \in Range(scored_documents)
    /\ stepPc \in {"rules", "first_pass", "retry_pass"} => ENABLED NextScore

\* C9 witness: the run has returned with a document that failed twice.
C9_Witness ==
    /\ stepPc = "done"
    /\ \E d \in Docs : outcomes[d] = <<"unresolved", "unresolved">>

\* C10: one attempt sets the score only from a response that decodes to
\* {score: number}; no choices, no or empty text, text that is not JSON, no
\* usable "score" and a raising request leave the document as it was.
C10_AttemptOutcome ==
    [][\A d \in Docs :
          /\ (taskPc[d] = "sleeping" /\ taskPc'[d] = "returned")
                => IF DecodesToScore(response[d][1])
                   THEN documents'[d] =
                           [documents[d] EXCEPT
                              !.content_quality_score =
                                 Some(response[d][1].content.score)]
                   ELSE documents'[d] = documents[d]
          /\ (taskPc[d] = "called" /\ taskPc'[d] = "returned")
                => documents'[d] = documents[d]]_vars

\* C10 witness: after the first pass one document holds the score 0.0 of its
\* response and the other, whose attempt failed, holds none.
C10_Witness ==
    /\ stepPc = "retry_pass"
    /\ \E d, e \in Docs :
          /\ outcomes[d] = <<"scored">>
          /\ documents[d].content_quality_score = Some(0)
          /\ outcomes[e] = <<"unresolved">>
          /\ ~IsScored(documents[e])

\* C11: in every state of a scoring run a document's score is absent or in
\* the closed range [0.0, 1.0], whatever number the model answers.
C11_ScoreInRange ==
    \A d \in Docs :
       IsScored(documents[d])
          => /\ documents[d].content_quality_score[1] >= 0
             /\ documents[d].content_quality_score[1] <= 100

\* C12: the step's return holds every input document exactly once, and the
\* model agent's return holds every document it was given exactly once:
\* rule-scored, scored on the first pass, scored on the retry and unresolved.
C12_ReturnsEveryDocument ==
    stepPc = "done"
       => /\ IsListingOf(scored_documents, Docs)
          /\ Len(scored_documents) = Len(loaded)
          /\ IsListingOf(documents_with_model_scores,
                         Range(documents_without_scores))

\* C12 witness: the run is over with two documents, one scored by the rule
\* tier and one that went through both passes and holds no score.
C12_Witness ==
    /\ stepPc = "done"
    /\ Len(loaded) = 2
    /\ \E d, e \in Docs :
          /\ requests[d] = <<>>
          /\ IsScored(documents[d])
          /\ Len(requests[e]) = 2
          /\ ~IsScored(documents[e])

\* the URL ratio of a document as handed in is at least tenths / 10
LoadedRatioAtLeast(d, tenths) ==
    10 * SumLen(loaded[d].child_urls) >= tenths * loaded[d].content

\* the score the rule policy gives document d as handed in, if any
LoadedRuleScore(d) ==
    IF loaded[d].content = 0 \/ LoadedRatioAtLeast(d, 7)
    THEN Some(0)
    ELSE IF LoadedRatioAtLeast(d, 5) THEN Some(20) ELSE None

\* C13 as stated: with the mock scorer a run ends with 0.0 on every document
\* without content or with a URL ratio of 0.7 and more, 0.2 on every document
\* with a ratio from 0.5 on, and exactly 0.5 on every other document.
C13_MockScoresAll ==
    (stepPc = "done" /\ mock)
       => \A d \in Docs :
             documents[d].content_quality_score =
                IF LoadedRuleScore(d) # None THEN LoadedRuleScore(d) ELSE Some(50)

\* C13: with the mock scorer a run ends with 0.0 on every document without
\* content or with a URL ratio of 0.7 and more, 0.2 on every document with a
\* ratio from 0.5 on, and, on every other document, 0.5 if it was handed in
\* without a score and else the score it was handed in with; no document is
\* left without a score.
C13_MockScores ==
    (stepPc = "done" /\ mock)
       => \A d \in Docs :
             /\ IsScored(documents[d])
             /\ documents[d].content_quality_score =
                   IF LoadedRuleScore(d) # None
                   THEN LoadedRuleScore(d)
                   ELSE IF IsScored(loaded[d])
                        THEN loaded[d].content_quality_score
                        ELSE Some(50)

\* C13 witness: the mock run of the three documents (no content, URL ratio
\* 0.8, URL ratio 0.1) is over with the scores 0.0, 0.0 and 0.5.
C13_Witness ==
    /\ stepPc = "done"
    /\ mock
    /\ Len(loaded) = 3
    /\ \A d \in Docs : ~IsScored(loaded[d])
    /\ loaded[1].content = 0
    /\ 10 * SumLen(loaded[2].child_urls) = 8 * loaded[2].content
    /\ 10 * SumLen(loaded[3].child_urls) = 1 * loaded[3].content
    /\ loaded[3].content > 0
    /\ documents[1].content_quality_score = Some(0)
    /\ documents[2].content_quality_score = Some(0)
    /\ documents[3].content_quality_score = Some(50)

\* the documents the step handed to the model agent
Submitted == Range(documents_without_scores)

\* C14: when no document gets a valid answer on the first pass and every
\* document gets one on the retry pass, the run ends with a model-assigned
\* score on every submitted document, and the agent's and the step's return
\* hold all of them.
C14_RetryRecovers ==
    (/\ stepPc = "done"
     /\ ~mock
     /\ \A d \in Submitted : answers[d] = <<"invalid", "valid">>)
       => \A d \in Submitted :
             /\ IsScored(documents[d])
             /\ documents[d].content_quality_score[1] \in ModelScores
             /\ d \in Range(documents_with_model_scores)
             /\ d \in Range(scored_documents)

\* C14 witness: the run of two submitted documents is over; both got no valid
\* answer on the first pass and a valid one on the retry pass.
C14_Witness ==
    /\ stepPc = "done"
    /\ ~mock
    /\ Cardinality(Submitted) = 2
    /\ \A d \in Submitted : answers[d] = <<"invalid", "valid">>
    /\ \A d \in Submitted : IsScored(documents[d])

\* C15: the counts the model agent reports at the end of its run agree with
\* the documents: succeeded is the number of submitted documents that hold a
\* score, failed the number that hold none, and they add up to the number
\* submitted.
C15_CountsMatchDocuments ==
    stepPc = "done"
       => /\ agent_counts # None
          /\ agent_counts[1].success_count =
                Cardinality({d \in Submitted : IsScored(documents[d])})
          /\ agent_counts[1].failed_count =
                Cardinality({d \in Submitted : ~IsScored(documents[d])})
          /\ agent_counts[1].success_count + agent_counts[1].failed_count
                = Cardinality(Submitted)

\* what the fetches of a crawl have returned so far
Fetched ==
    crawled_results \o (IF crawlPc \in {"gather", "aborted"} THEN batch_results ELSE <<>>)

\* C16: when a crawl is over the step has got one new document for every
\* child URL whose fetch succeeded and none for the others, on top of the
\* source documents, and the crawler's summary adds up: succeeded + failed =
\* total attempts = the number of child URLs.
C16_OneDocumentPerSuccess ==
    crawlPc \in {"done", "aborted"}
       => /\ Len(child_pages) = Len(Successful(Fetched))
          /\ summary # None
          /\ summary[1].success_count = Len(child_pages)
          /\ summary[1].success_count + summary[1].failed_count
                = summary[1].total_attempts
          /\ summary[1].total_attempts = TotalUrls(documents)

\* the ids that occur in a list of documents
Ids(docs) == {docs[i].id : i \in 1..Len(docs)}

\* C17: the merged collection holds no id twice and as many documents as
\* there are distinct ids among the source documents and the child pages;
\* merged with itself, or with pages whose ids all occur already (whatever
\* their content), a collection keeps the number of its distinct ids.
C17_MergeDistinctIds ==
    crawlPc = "merged"
       => /\ \A i, j \in 1..Len(comprehensive_collection) :
                comprehensive_collection[i].id = comprehensive_collection[j].id
                   => i = j
          /\ Len(comprehensive_collection)
                = Cardinality(Ids(documents) \cup Ids(child_pages))
          /\ Ids(child_pages) \subseteq Ids(documents)
                => Cardinality(Ids(comprehensive_collection))
                      = Cardinality(Ids(documents))

\* C17 witness: two source documents were merged with a page that has the id
\* of one of them and another content and a page with a new id; the result
\* holds three documents.
C17_Witness ==
    /\ crawlPc = "merged"
    /\ Len(documents) = 2
    /\ Len(child_pages) = 2
    /\ documents[1].id # documents[2].id
    /\ child_pages[1].id = documents[1].id
    /\ child_pages[1].content # documents[1].content
    /\ child_pages[2].id \notin Ids(documents)
    /\ Len(comprehensive_collection) = 3

\* a step in which every task that obtains a response starts its pause with
\* its slot held, and every task that leaves the limiter with a response
\* does so from the end of its pause
PausedRelease ==
    /\ \A d \in Docs :
          /\ (taskPc[d] = "called" /\ response'[d] # None)
                => /\ taskPc'[d] = "sleeping"
                   /\ semaphore' = semaphore
                   /\ await_time_seconds = IF stepPc = "first_pass" THEN 7 ELSE 20
          /\ (d \in ScoreInside /\ d \notin ScoreInside' /\ response[d] # None)
                => /\ taskPc[d] = "sleeping"
                   /\ taskPc'[d] = "returned"
    /\ \A t \in DOMAIN crawlTask \cap DOMAIN crawlTask' :
          /\ (crawlTask[t] = "fetching" /\ crawl_result'[t] # None)
                => /\ crawlTask'[t] = "sleeping"
                   /\ request_limiter' = request_limiter
          /\ (t \in CrawlInside /\ t \notin CrawlInside' /\ crawl_result[t] # None)
                => /\ crawlTask[t] = "sleeping"
                   /\ crawlTask'[t] = "returned"

\* C18: an operation that obtains a response pauses with its slot held and
\* frees the slot only when the pause has run to its end: a model task goes
\* from the returning completion into its pause (7 s on the first pass, 20 s
\* on the retry) and leaves the limiter from the end of the pause; a crawl
\* task does so with its pause after a fetch result of any kind.
C18_PauseBeforeRelease == [][PausedRelease]_vars

\* C19: no starvation. Every model task that is submitted gets a slot and
\* every one that has a slot frees it; every crawl task gets a slot and
\* returns; and the scoring run and the crawl batch return.
C19_NoStarvation ==
    /\ \A d \in 1..MaxDocs :
          /\ (d \in Docs /\ ~mock /\ taskPc[d] \in {"created", "waiting"})
                ~> (d \in Docs /\ d \in ScoreInside)
          /\ (d \in Docs /\ d \in ScoreInside)
                ~> (d \in Docs /\ taskPc[d] = "returned")
    /\ (stepPc = "rules") ~> (stepPc = "done")
    /\ \A t \in 1..MaxCrawlUrls :
          /\ (t \in DOMAIN crawlTask /\ crawlTask[t] \in {"created", "waiting"})
                ~> (t \in DOMAIN crawlTask /\ t \in CrawlInside)
          /\ (t \in DOMAIN crawlTask /\ t \in CrawlInside)
                ~> (t \in DOMAIN crawlTask /\ crawlTask[t] = "returned")
    /\ (crawlPc = "idle") ~> (crawlPc = "done")

\* a fetch result with content: the fetch succeeded and extracted a text
\* that is not empty
HasContent(result) ==
    /\ result.present
    /\ result.success
    /\ result.markdown # None
    /\ result.markdown[1] > 0

\* C20: a fetch returns a document only for a successful result with a text
\* that is not empty, and no document for a failed fetch, a page without
\* text or a page with an empty text: no crawled document has empty content.
C20_NoDocumentWithoutContent ==
    [][\A t \in DOMAIN crawlTask \cap DOMAIN crawlTask' :
          (crawlTask[t] = "sleeping" /\ crawlTask'[t] = "returned")
             => IF HasContent(crawl_result[t][1])
                THEN /\ batch_results'[t] # None
                     /\ batch_results'[t][1].content = crawl_result[t][1].markdown[1]
                ELSE batch_results'[t] = None]_vars

\* a list that holds no value twice
NoDuplicates(s) == \A i, j \in 1..Len(s) : s[i] = s[j] => i = j

\* the documents the fetches of a crawl have returned so far
FetchedDocuments == Successful(Fetched)

\* C21: every document a fetch returns holds each link of its page at most
\* once in child_urls (the links of the page, internal and external, without
\* repetition), whatever the page's link lists hold; two documents may hold
\* the same link.
C21_ChildUrlsDistinct ==
    \A i \in 1..Len(FetchedDocuments) : NoDuplicates(FetchedDocuments[i].child_urls)

\* C22: the crawl step leaves its input as it found it: at every point of a
\* crawl and after the merge the caller's source_documents is the list that
\* was handed in, with the same length, the same elements and every field of
\* every source document as it was.
C22_SourcesUnchanged ==
    crawlPc # "off"
       => /\ Len(documents) = Len(loaded)
          /\ \A i \in 1..Len(documents) : documents[i] = loaded[i]

\* C22 witness: the merge has returned a collection that holds a new page on
\* top of two source documents, which are as they were handed in.
C22_Witness ==
    /\ crawlPc = "merged"
    /\ Len(documents) = 2
    /\ child_pages # <<>>
    /\ Len(comprehensive_collection) > Len(documents)
    /\ documents = loaded

\* C23: store_to_mongodb called with an empty list ends with ValueError before
\* any effect: no call is made on the MongoDB client (no connection, no
\* clearing, no insertion) and the collection is as it was; the scoring step,
\* the crawler and the merge take an empty list, do not fail and return an
\* empty list.
C23_EmptyBatch ==
    /\ (storePc \notin {"off", "called"} /\ documents = <<>>)
          => /\ storePc = "raised"
             /\ store_error = Some("ValueError")
             /\ mongo_calls = <<>>
             /\ collection = collection_at_call
    /\ (stepPc # "off" /\ loaded = <<>>)
          => /\ stepPc # "done" => ENABLED NextScore
             /\ stepPc = "done" => scored_documents = <<>>
    /\ (crawlPc \in {"idle", "loop", "gather", "aborted", "done"} /\ documents = <<>>)
          => /\ crawlPc \in {"idle", "loop", "done"}
             /\ crawlPc # "done" => ENABLED NextCrawl
             /\ crawlPc = "done" => child_pages = <<>>
    /\ (crawlPc = "merged" /\ documents = <<>> /\ child_pages = <<>>)
          => comprehensive_collection = <<>>

\* C23 witness: the step was called with an empty list, the flag to clear
\* set and a collection that holds a document; it has ended with ValueError
\* and the collection holds the document.
C23_Witness ==
    /\ storePc = "raised"
    /\ documents = <<>>
    /\ clear_existing_data
    /\ collection_at_call # <<>>
    /\ collection = collection_at_call
    /\ store_error = Some("ValueError")

\* a step in which the retry pass starts only from a first pass whose tasks
\* have all returned, freed their slots and been collected, with a new
\* semaphore of K free slots, and a second request is issued in the retry
\* pass only
RetryAfterFirstPass ==
    /\ (stepPc = "first_pass" /\ stepPc' = "retry_pass")
          => /\ \A d \in Range(batch) : taskPc[d] = "returned"
             /\ ScoreInside = {}
             /\ completed = <<>>
             /\ IsListingOf(results, Range(batch))
             /\ semaphore = [value |-> max_concurrent_tasks, waiters |-> <<>>]
             /\ semaphore' = [value |-> max_concurrent_tasks, waiters |-> <<>>]
             /\ ScoreInside' = {}
    /\ \A d \in Docs :
          /\ Len(requests'[d]) > Len(requests[d])
                => (Len(requests'[d]) = 2 <=> stepPc = "retry_pass")
          /\ (d \notin ScoreInside /\ d \in ScoreInside' /\ requests[d] # <<>>)
                => stepPc = "retry_pass"

\* C24: no operation of the retry pass acquires a slot or issues a request
\* before every operation of the first pass has ended and been collected;
\* the retry pass has its own limiter with K free slots; and at most K model
\* operations are in flight at any time, over both passes.
C24_PassesApart ==
    /\ [][RetryAfterFirstPass]_vars
    /\ [](/\ Cardinality(ScoreInside) <= max_concurrent_tasks
          /\ stepPc = "first_pass" => \A d \in Docs : Len(requests[d]) <= 1)

\* C24 witness: the retry pass is running with K = 2 and both documents,
\* submitted a second time, are inside the limiter.
C24_Witness ==
    /\ stepPc = "retry_pass"
    /\ max_concurrent_tasks = 2
    /\ Cardinality(ScoreInside) = 2
    /\ \A d \in ScoreInside : Len(requests[d]) = 2

\* the child URLs of the source documents, one entry for every document and
\* every position of its child_urls
UrlEntries ==
    {e \in (1..Len(documents)) \X (1..MaxCrawlUrls) :
        e[2] <= Len(documents[e[1]].child_urls)}

\* the number of times crawler.arun was called for an entry
FetchCount(e) ==
    IF e[1] <= Len(fetch_calls) THEN fetch_calls[e[1]][e[2]] ELSE 0

\* C25: no fetch is made twice, and a crawl that is over, with fetches that
\* succeeded and fetches that failed, has called the fetch collaborator
\* exactly once for every child URL of every source document.
C25_FetchedExactlyOnce ==
    crawlPc # "off"
       => /\ \A e \in UrlEntries : FetchCount(e) <= 1
          /\ crawlPc \in {"done", "aborted"}
                => \A e \in UrlEntries : FetchCount(e) = 1

\* the prompt of document d as formatted, before any truncation
FullPrompt(d) == TemplateLen + loaded[d].content

\* C26: a clip_tokens that raises does not keep the request back. Every
\* document handed to the model tier in non-mock mode gets exactly one
\* completion request in a pass it takes part in; the request carries the
\* prompt as formatted when clip_tokens raised and the prompt cut to the
\* token limit when it returned; and an attempt ends with a score exactly
\* when its answer is valid, whether clip_tokens raised or not.
C26_ClipFailureSubmits ==
    (stepPc # "off" /\ ~mock)
       => \A d \in Docs :
             /\ \A i \in 1..Len(requests[d]) :
                   IF requests[d][i].clip_raised
                   THEN requests[d][i].prompt = FullPrompt(d)
                   ELSE /\ requests[d][i].prompt <= MaxTokens
                        /\ FullPrompt(d) <= MaxTokens
                              => requests[d][i].prompt = FullPrompt(d)
             /\ (InPass /\ taskPc[d] \in {"called", "sleeping", "returned"})
                   => Len(requests[d]) = IF stepPc = "first_pass" THEN 1 ELSE 2
             /\ (stepPc = "done" /\ d \in Submitted)
                   => Len(requests[d]) = IF IsScored(afterFirstPass[d]) THEN 1 ELSE 2
             /\ Len(outcomes[d]) = Len(answers[d])
             /\ \A i \in 1..Len(outcomes[d]) :
                   outcomes[d][i] = "scored" <=> answers[d][i] = "valid"

\* C26 witness: the run is over; clip_tokens raised for a document whose
\* prompt is over the token limit, the one request of the first pass carried
\* the whole prompt, and the document was scored on that pass.
C26_Witness ==
    /\ stepPc = "done"
    /\ ~mock
    /\ \E d \in Docs :
          /\ FullPrompt(d) > MaxTokens
          /\ Len(requests[d]) = 1
          /\ requests[d][1].clip_raised
          /\ requests[d][1].prompt = FullPrompt(d)
          /\ outcomes[d] = <<"scored">>
          /\ IsScored(documents[d])

\* C27: in the metadata of the scoring step documents_scored_by_model is the
\* number of documents the model tier scored, and documents_with_scores is
\* documents_scored_by_rules plus documents_scored_by_model, in every run,
\* also when a model evaluation has failed on both passes.
C27_MetadataAddsUp ==
    stepPc = "done"
       => /\ step_metadata # None
          /\ step_metadata[1].documents_scored_by_model =
                Cardinality({d \in Submitted : IsScored(documents[d])})
          /\ step_metadata[1].documents_with_scores =
                step_metadata[1].documents_scored_by_rules
                   + step_metadata[1].documents_scored_by_model

\* the slots of a limiter that are held
Held(sem) == max_concurrent_tasks - sem.value

\* the crawl tasks that have not ended
CrawlAlive ==
    {t \in DOMAIN crawlTask :
        crawlTask[t] \in {"created", "waiting", "holding", "fetching", "sleeping"}}

\* C28: a slot is freed on every way out of an operation. In every state of
\* a pass and of a crawl the slots held are as many as the operations between
\* acquire and release, and the waiters are the operations waiting; when a
\* scoring run or a crawl has returned, or a crawl has ended with an
\* exception and its tasks have ended, all K slots are free.
C28_SlotsReleased ==
    /\ stepPc \in {"first_pass", "retry_pass", "done"}
          => /\ Held(semaphore) = Cardinality(ScoreInside)
             /\ Range(semaphore.waiters) = {d \in Docs : taskPc[d] = "waiting"}
    /\ stepPc = "done"
          => semaphore = [value |-> max_concurrent_tasks, waiters |-> <<>>]
    /\ crawlPc \in {"loop", "gather", "aborted", "done"}
          => /\ Held(request_limiter) = Cardinality(CrawlInside)
             /\ Range(request_limiter.waiters)
                   = {t \in DOMAIN crawlTask : crawlTask[t] = "waiting"}
    /\ (crawlPc = "done" \/ (crawlPc = "aborted" /\ CrawlAlive = {}))
          => request_limiter = [value |-> max_concurrent_tasks, waiters |-> <<>>]

\* C28 witness: a crawl with K = 1 has ended with the exception of a fetch,
\* the task that waited was cancelled, and the slot is free.
C28_Witness ==
    /\ crawlPc = "aborted"
    /\ max_concurrent_tasks = 1
    /\ CrawlAlive = {}
    /\ \E t, u \in DOMAIN crawlTask :
          /\ crawlTask[t] = "raised"
          /\ crawlTask[u] = "cancelled"
    /\ request_limiter.value = 1

RECURSIVE Submissions(_, _)
\* the child URLs in the order of submission: source document by source
\* document from the i-th on, each one's child_urls in their order
Submissions(docs, i) ==
    IF i > Len(docs)
    THEN <<>>
    ELSE [t \in 1..Len(docs[i].child_urls) |->
             [parent |-> i, url |-> docs[i].child_urls[t]]]
         \o Submissions(docs, i + 1)

RECURSIVE IsSubsequence(_, _)
\* a can be got from b by leaving elements out
IsSubsequence(a, b) ==
    IF a = <<>>
    THEN TRUE
    ELSE IF b = <<>>
         THEN FALSE
         ELSE IF Head(a) = Head(b)
              THEN IsSubsequence(Tail(a), Tail(b))
              ELSE IsSubsequence(a, Tail(b))

\* a step that calls a fetch calls it for the current source document, and a
\* step to the next source document is taken when every task of the current
\* one has returned and left the limiter
OneDocumentAtATime ==
    /\ \A i \in 1..Len(fetch_calls) :
          (Len(fetch_calls') = Len(fetch_calls) /\ fetch_calls'[i] # fetch_calls[i])
             => /\ i = docPos
                /\ crawlPc \in {"gather", "aborted"}
                /\ \A j \in 1..(i - 1) :
                      \A t \in DOMAIN fetch_calls[j] : fetch_calls[j][t] = 1
    /\ docPos' # docPos
          => /\ \A t \in DOMAIN crawlTask : crawlTask[t] = "returned"
             /\ CrawlInside = {}
             /\ \A t \in DOMAIN crawl_result : crawl_result[t] = None
             /\ docPos' = docPos + 1
             /\ Len(fetch_calls') = docPos'

\* the child pages a crawler has returned, by parent and URL
ReturnedPages ==
    [i \in 1..Len(child_pages) |->
        [parent |-> child_pages[i].parent, url |-> child_pages[i].url]]

\* C29: the crawler takes the source documents one after another with a
\* barrier between them: no fetch of the next document starts before every
\* fetch of the current one has finished, its pause included; the fetches in
\* flight are at most K and at most the child URLs of the current document;
\* and the documents returned are in the order of submission.
C29_DocumentBarrier ==
    /\ [][OneDocumentAtATime]_vars
    /\ [](crawlPc \in {"gather", "loop", "aborted", "done"}
            => /\ Cardinality(CrawlInside) <= max_concurrent_tasks
               /\ docPos = 0 => CrawlInside = {}
               /\ docPos > 0
                     => Cardinality(CrawlInside) <= Len(documents[docPos].child_urls)
               /\ Len(fetch_calls) = docPos
               /\ crawlPc = "done"
                     => IsSubsequence(ReturnedPages, Submissions(documents, 1)))

\* C29 witness: a crawl of two source documents with K = 2 has returned
\* pages of both, the first document's before the second's.
C29_Witness ==
    /\ crawlPc = "done"
    /\ max_concurrent_tasks = 2
    /\ Len(documents) = 2
    /\ Len(child_pages) >= 2
    /\ child_pages[1].parent = 1
    /\ child_pages[Len(child_pages)].parent = 2

\* the first document of a list that has the id
FirstWithId(docs, id) ==
    docs[CHOOSE i \in 1..Len(docs) :
            /\ docs[i].id = id
            /\ \A j \in 1..(i - 1) : docs[j].id # id]

\* C30: of the documents that share an id the merge keeps exactly one, the
\* first in the list of the source documents followed by the child pages: a
\* source document is never replaced by a child page with its id, and every
\* id of a source document is in the merged collection.
C30_FirstKept ==
    crawlPc = "merged"
       => /\ \A id \in Ids(documents) \cup Ids(child_pages) :
                /\ Cardinality({i \in 1..Len(comprehensive_collection) :
                                   comprehensive_collection[i].id = id}) = 1
                /\ FirstWithId(comprehensive_collection, id)
                      = FirstWithId(documents \o child_pages, id)
          /\ \A id \in Ids(documents) :
                /\ id \in Ids(comprehensive_collection)
                /\ FirstWithId(comprehensive_collection, id)
                      = FirstWithId(documents, id)

\* C30 witness: a source document and a child page with its id and another
\* content were merged, and the collection holds the source document.
C30_Witness ==
    /\ crawlPc = "merged"
    /\ \E i \in 1..Len(documents), j \in 1..Len(child_pages) :
          /\ child_pages[j].id = documents[i].id
          /\ child_pages[j].content # documents[i].content
          /\ \E k \in 1..Len(comprehensive_collection) :
                comprehensive_collection[k] = documents[i]
    /\ \E i, j \in 1..Len(child_pages) :
          /\ i < j
          /\ child_pages[i].id = child_pages[j].id

====
